---- MODULE Spec2Model ----
(***************************************************************************)
(* Token cache and authenticated call wrapper of the ERP Academico facade  *)
(* (academicoErpRestInterface.py) together with the token store of the     *)
(* mock upstream (mockAcademicoApi.py).                                    *)
(*                                                                         *)
(* Scheduling: the handlers are `async def` coroutines on one event loop.  *)
(* A coroutine runs without interruption until it awaits network I/O       *)
(* (client.post); each action below is one such uninterrupted run.  The    *)
(* `with _token_lock:` block contains no await, so it is entered and left  *)
(* inside a single action.                                                 *)
(*                                                                         *)
(* Strings that matter character by character (credentials, log           *)
(* arguments) are sequences of one-character strings.                      *)
(***************************************************************************)
EXTENDS Integers, Sequences, FiniteSets, TLC

\* ---------------------------------------------------------------- bounds
NumCallers == 2
MaxTime == 80

\* ------------------------------------------------------- program constants
HTTP_TIMEOUT_SECONDS == 20
TOKEN_SAFETY_SECONDS == 60
\* status_code of every HTTPException raised by the token and call paths
BAD_GATEWAY == 502
\* Python None for the token value, and the empty string "" a response may carry
None == 0
EmptyStr == -1

\* the callers of the facade, and the callers of the stampede test (one more)
Callers == 1..NumCallers
Racers == 1..(NumCallers + 1)
\* seconds by which the clock advances between observations
TickSteps == {20}

\* ----------------------------------------------------------- credentials
ERP_TOKEN_URL == <<"t","o","k","e","n","u","r","l">>
ERP_API_BASE == <<"a","p","i","b","a","s","e">>
ERP_USERNAME == <<"s","v","c","_","u","s","e","r">>
ERP_PASSWORD == <<"p","4","s","s","w","o","r","d">>
ERP_CLIENT_ID == <<"a","i","c","-","f","a","c","a","d","e">>
ERP_CLIENT_SECRET == <<"s","3","c","r","3","t","k","e","y">>
Credentials == {ERP_USERNAME, ERP_PASSWORD, ERP_CLIENT_ID, ERP_CLIENT_SECRET}

Stars == <<"*","*","*">>
Redacted == Stars \o <<"R","E","D","A","C","T","E","D">> \o Stars

redact(s) ==
    IF Len(s) = 0 THEN Stars
    ELSE IF Len(s) <= 6 THEN Redacted
    ELSE SubSeq(s, 1, 3) \o <<".",".",".">> \o Redacted

\* "%s" of an integer
RECURSIVE Digits(_)
Digits(n) ==
    IF n < 10 THEN <<ToString(n)>> ELSE Digits(n \div 10) \o <<ToString(n % 10)>>
Str(n) == IF n < 0 THEN <<"-">> \o Digits(0 - n) ELSE Digits(n)

VARIABLES
    access_token,        \* _access_token: None or a token
    token_expiry_epoch,  \* _token_expiry_epoch
    token_lock,          \* _token_lock: None (free) or the caller holding it
    now,                 \* time.time()
    TOKENS,              \* mock upstream: TOKENS[t] = expires_at of token t
    emitted,             \* the log records written by the step just taken
    pc,                  \* per caller: where its coroutine is suspended
    kind,                \* per caller: the operation it runs
    sentAt,              \* per caller: when its request in flight was issued
    bearer,              \* per caller: the token of the Authorization header in flight
    posts,               \* per caller, history: data POSTs this call has issued
    refetches,           \* per caller, history: unconditional refetches it has issued
    dataResps,           \* per caller, history: the data responses it has received
    wrote,               \* per caller, history: it assigned a different value to the cache
    raceFetches,         \* history: get_token fetches issued since a fetch last completed
    expirySrc,           \* history: the token whose fetch wrote token_expiry_epoch
    lastFetch,           \* history: the token answer processed by the step just taken
    ended,               \* history: the operation that returned or raised in that step
    idAlumno,            \* per caller: the idAlumno of the /aic/alumnos request it serves
    reply                \* the HTTP reply /aic/alumnos gave in the step just taken

vars == <<access_token, token_expiry_epoch, token_lock, now, TOKENS,
          emitted, pc, kind, sentAt, bearer, posts, refetches, dataResps, wrote,
          raceFetches, expirySrc, lastFetch, ended, idAlumno, reply>>

cache == <<access_token, token_expiry_epoch>>

NoError == [exc |-> "none", status_code |-> 0, detail |-> "", upstream |-> 0]
NoFetch == [caller |-> 0, status |-> 0, token |-> None, expires_in |-> "absent",
            seconds |-> 0, ok |-> FALSE, returned |-> None, error |-> NoError]
NoEnd == [caller |-> 0, kind |-> "none", ok |-> FALSE, token |-> None, json |-> "",
          error |-> NoError, posts |-> 0, refetches |-> 0, responses |-> <<>>,
          wrote |-> FALSE]

\* ------------------------------------------------------------ token cache
TokenValidFlipped == access_token # None /\ now > token_expiry_epoch
_token_is_valid == access_token # None /\ now < token_expiry_epoch

Max(a, b) == IF a >= b THEN a ELSE b

IsSuccess(status) == ~(status < 200 \/ status >= 300)

\* line 107
ExpiryWithoutMargin(expires_in) == now + expires_in
ExpiryOf(expires_in) == now + Max(0, expires_in - TOKEN_SAFETY_SECONDS)

\* ------------------------------------------------------- upstream answers
ExpiresInSeconds == {-1, 30, 61, 81}

TokenBody(status, token, tag, seconds) ==
    [status |-> status, token |-> token, expires_in |-> tag, seconds |-> seconds]

\* The answers of the token endpoint; fresh is the token a 2xx answer may carry.
\* expires_in is an integer, absent from the body, or JSON null.
TokenResponses(fresh) ==
    { TokenBody(s, None, "absent", 0) : s \in {300, 500} }
    \cup { TokenBody(200, fresh, "int", e) : e \in ExpiresInSeconds }
    \cup { TokenBody(200, t, "int", 61) : t \in {None, EmptyStr} }
    \cup { TokenBody(200, t, "absent", 0) : t \in {None, fresh} }
    \cup { TokenBody(200, None, "null", 0), TokenBody(299, fresh, "int", 61) }

\* ------------------------------------------------------------ /aic/alumnos
\* no /aic/alumnos request: the caller runs get_token or erp_post_json directly
NoId == <<>>
NoReply == [caller |-> 0, idAlumno |-> NoId, status |-> 0, detail |-> "",
            called |-> FALSE, data |-> ""]

\* The idAlumno values sent.  "sup2" stands for the one character U+00B2
\* (superscript two): str.isdigit() accepts it, int() does not.
IdAlumnos ==
    { <<"a","b","c">>, <<>>, <<"1","a">>, <<"1","2">>, <<" ","1","2"," ">>,
      <<"sup2">> }

DecimalChars == {"0","1","2","3","4","5","6","7","8","9"}
DigitChars == DecimalChars \cup {"sup2"}

\* str.strip(), line 263
RECURSIVE Strip(_)
Strip(s) ==
    IF Len(s) = 0 THEN s
    ELSE IF s[1] = " " THEN Strip(Tail(s))
    ELSE IF s[Len(s)] = " " THEN Strip(SubSeq(s, 1, Len(s) - 1))
    ELSE s

\* str.isdigit(), line 264: not empty, every character a digit
IsDigit(s) == Len(s) > 0 /\ \A i \in 1..Len(s) : s[i] \in DigitChars

\* int(id_str), line 270, raises ValueError unless every character is a decimal
IntOfIdRaises(s) == ~(Len(s) > 0 /\ \A i \in 1..Len(s) : s[i] \in DecimalChars)

\* The parsed bodies /alumnos/search-list may answer: an empty list, a list with one
\* student record, a list whose first item is no mapping, and no list at all.
AlumnosBodies == {"[]", "[alumno]", "[7]", "{}"}
IsList(data) == data \in {"[]", "[alumno]", "[7]"}
FirstIsDict(data) == data = "[alumno]"

\* lines 278-288: the reply for what erp_post_json returned (ok, data) or raised (err);
\* an HTTPException keeps its status, any other exception is a 500
AlumnosReply(c, ok, data, err) ==
    IF ~ok
    THEN [caller |-> c, idAlumno |-> idAlumno[c], called |-> TRUE, data |-> "",
          status |-> IF err.exc = "HTTPException" THEN err.status_code ELSE 500,
          detail |-> err.detail]
    ELSE IF ~IsList(data) \/ data = "[]"
    THEN [caller |-> c, idAlumno |-> idAlumno[c], called |-> TRUE, data |-> data,
          status |-> 404, detail |-> "Alumno not found"]
    ELSE IF ~FirstIsDict(data)
    THEN [caller |-> c, idAlumno |-> idAlumno[c], called |-> TRUE, data |-> data,
          status |-> BAD_GATEWAY, detail |-> "Unexpected alumnos response format"]
    ELSE [caller |-> c, idAlumno |-> idAlumno[c], called |-> TRUE, data |-> data,
          status |-> 200, detail |-> "normalize_alumno(data[0])"]

\* the parsed bodies of a 2xx data answer: those of /alumnos/search-list while
\* /aic/alumnos requests are served, an opaque body for a direct erp_post_json
Bodies ==
    IF \E c \in Racers : idAlumno[c] # NoId THEN AlumnosBodies ELSE {"b1"}
ErrText == <<"e","r","r">>

\* Token values.  A value names a token for as long as the cache, a request in
\* flight or the expiry written with it holds it; after that the value is free to
\* name a token issued later.
TokenIds == 1..(NumCallers + 3)
Held(t) ==
    t = access_token \/ t = expirySrc \/ (\E c \in Racers : bearer[c] = t)
\* secrets.token_urlsafe(48) of mock _issue_token: a value nobody holds
FreshToken == CHOOSE t \in TokenIds : ~Held(t) /\ \A u \in TokenIds : ~Held(u) => t <= u

\* mock _require_bearer: the token is known and not yet expired upstream
RequireBearer(token) ==
    token \in TokenIds /\ TOKENS[token] # 0 /\ ~(now >= TOKENS[token])

\* The answers of a data endpoint to a POST carrying token.
DataResponses(token) ==
    IF RequireBearer(token)
    THEN { [status |-> 200, body |-> b] : b \in Bodies }
         \cup { [status |-> s, body |-> ""] : s \in {401, 500} }
    ELSE { [status |-> 401, body |-> ""] }

\* ------------------------------------------------------------- log records
Rec(msg, args) == [msg |-> msg, args |-> args]

LogFetching ==
    Rec("Fetching token from %s (username=%s, client_id=%s, client_secret=%s)",
        <<ERP_TOKEN_URL, ERP_USERNAME, ERP_CLIENT_ID, redact(ERP_CLIENT_SECRET)>>)

Path == <<"a","l","u","m","n","o","s">>
Url == ERP_API_BASE \o <<"/">> \o Path

\* --------------------------------------------------------- _fetch_token
\* int(j.get("expires_in", 0)), line 101; JSON null makes int() raise
IntRaises(resp) == resp.expires_in = "null"
IntOf(resp) == IF resp.expires_in = "absent" THEN 0 ELSE resp.seconds

HTTPException(detail, upstream) ==
    [exc |-> "HTTPException", status_code |-> BAD_GATEWAY, detail |-> detail,
     upstream |-> upstream]

\* line 103, `not token`: the access_token is absent, null or the empty string
TokenMissingNever(resp) == FALSE
TokenMissing(resp) == resp.token \in {None, EmptyStr}

\* lines 95-116: what _fetch_token makes of the answer resp
FetchOutcome(resp) ==
    IF ~IsSuccess(resp.status)
    THEN [ok |-> FALSE, token |-> None, expiry |-> 0,
          error |-> HTTPException("Token request failed", resp.status),
          logs |-> {Rec("Token request failed: status=%s body=%s",
                        <<Str(resp.status), ErrText>>)}]
    ELSE IF IntRaises(resp)
    THEN [ok |-> FALSE, token |-> None, expiry |-> 0,
          error |-> [exc |-> "TypeError", status_code |-> 0, detail |-> "int()",
                     upstream |-> 0],
          logs |-> {}]
    ELSE IF TokenMissing(resp) \/ IntOf(resp) <= 0
    THEN [ok |-> FALSE, token |-> None, expiry |-> 0,
          error |-> HTTPException("Token response invalid", 0),
          logs |-> {Rec("Token response missing access_token or expires_in. keys=%s",
                        << (IF resp.token = None THEN <<>> ELSE <<"access_token">>)
                           \o (IF resp.expires_in = "absent" THEN <<>>
                               ELSE <<"expires_in">>) >>)}]
    ELSE [ok |-> TRUE, token |-> resp.token, expiry |-> ExpiryOf(IntOf(resp)),
          error |-> NoError,
          logs |-> {Rec("Token acquired. expires_in=%s safety=%s valid_for~%ss",
                        <<Str(IntOf(resp)), Str(TOKEN_SAFETY_SECONDS),
                          Str(ExpiryOf(IntOf(resp)) - now)>>)}]

\* lines 109-110: the cache after the answer was processed (src: the token whose
\* fetch wrote the expiry)
StoreTokenOnly(o) ==
    IF o.ok THEN [value |-> o.token, expiry |-> token_expiry_epoch, src |-> expirySrc]
    ELSE [value |-> access_token, expiry |-> token_expiry_epoch, src |-> expirySrc]
StoreExpiryOnly(o) ==
    IF o.ok THEN [value |-> access_token, expiry |-> o.expiry, src |-> o.token]
    ELSE [value |-> access_token, expiry |-> token_expiry_epoch, src |-> expirySrc]
StoreBeforeValidation(o) ==
    [value |-> o.token, expiry |-> o.expiry, src |-> o.token]
StoreToken(o) ==
    IF o.ok THEN [value |-> o.token, expiry |-> o.expiry, src |-> o.token]
    ELSE [value |-> access_token, expiry |-> token_expiry_epoch, src |-> expirySrc]

\* line 161 (retry_on_401 keeps its default at every call site): the first answer,
\* and only the first, is retried when it is a 401
RetryEvery401(status, at) == status = 401
RetryUnlessCacheValid(status, at) ==
    status = 401 /\ at = "post1_wait" /\ ~(access_token # None /\ now < token_expiry_epoch)
RetryOn401(status, at) == status = 401 /\ at = "post1_wait"

\* line 172: r.json() of the last answer
FirstBody(resps) == resps[1].body
ReturnedBody(resps) == resps[Len(resps)].body

\* the state of _token_lock when the with-block of get_token has been left
LockKept(c) == c
LockAfterWith(c) == None


\* ------------------------------------------------------------------ Init
Init ==
    /\ access_token = None
    /\ token_expiry_epoch = 0
    /\ token_lock = None
    /\ now = 0
    /\ TOKENS = [t \in TokenIds |-> 0]
    /\ emitted = {}
    /\ pc = [c \in Racers |-> "idle"]
    /\ kind = [c \in Racers |-> "none"]
    /\ sentAt = [c \in Racers |-> 0]
    /\ bearer = [c \in Racers |-> None]
    /\ posts = [c \in Racers |-> 0]
    /\ refetches = [c \in Racers |-> 0]
    /\ dataResps = [c \in Racers |-> <<>>]
    /\ wrote = [c \in Racers |-> FALSE]
    /\ raceFetches = 0
    /\ expirySrc = None
    /\ lastFetch = NoFetch
    /\ ended = NoEnd
    /\ idAlumno = [c \in Racers |-> NoId]
    /\ reply = NoReply

Waiting == {"token_wait", "post1_wait", "refetch_wait", "post2_wait"}
TokenWaiting == {"token_wait", "refetch_wait"}
PostWaiting == {"post1_wait", "post2_wait"}

\* The mock's token store after a step; T is the store with the tokens issued in the
\* step.  Entries of tokens that neither the cache nor a request in flight holds are
\* dropped: no caller can present such a token again.
Forget(T) ==
    [t \in TokenIds |->
        IF t = access_token' \/ (\E c \in Racers : bearer'[c] = t) THEN T[t] ELSE 0]

\* The operation of caller c returns (ok) or raises: its frame is gone.
End(c, k, ok, token, json, err, resps, w) ==
    /\ pc' = [pc EXCEPT ![c] = "end"]
    /\ ended' = [caller |-> c, kind |-> k, ok |-> ok, token |-> token, json |-> json,
                 error |-> err, posts |-> posts[c], refetches |-> refetches[c],
                 responses |-> resps, wrote |-> w]
    /\ kind' = [kind EXCEPT ![c] = "none"]
    /\ sentAt' = [sentAt EXCEPT ![c] = 0]
    /\ bearer' = [bearer EXCEPT ![c] = None]
    /\ posts' = [posts EXCEPT ![c] = 0]
    /\ refetches' = [refetches EXCEPT ![c] = 0]
    /\ dataResps' = [dataResps EXCEPT ![c] = <<>>]
    /\ wrote' = [wrote EXCEPT ![c] = FALSE]
    /\ idAlumno' = [idAlumno EXCEPT ![c] = NoId]
    /\ reply' = IF idAlumno[c] = NoId THEN NoReply ELSE AlumnosReply(c, ok, json, err)

\* time.time() moves on
Tick ==
    /\ \E d \in TickSteps : now + d <= MaxTime /\ now' = now + d
    /\ emitted' = {}
    /\ lastFetch' = NoFetch
    /\ ended' = NoEnd
    /\ reply' = NoReply
    /\ UNCHANGED <<access_token, token_expiry_epoch, token_lock, TOKENS, pc, kind,
                   sentAt, bearer, posts, refetches, dataResps, wrote, raceFetches,
                   expirySrc, idAlumno>>

\* get_token lines 127-136 and _fetch_token lines 76-94, for operation k of caller c:
\* the value is cleared under the lock, the lock is left, the token request is sent.
SlowPath(c, k) ==
    /\ token_lock = None
    /\ ~_token_is_valid
    /\ access_token' = None
    /\ token_lock' = LockAfterWith(c)
    /\ wrote' = [wrote EXCEPT ![c] = access_token # None]
    /\ emitted' = {LogFetching}
    /\ sentAt' = [sentAt EXCEPT ![c] = now]
    /\ raceFetches' = raceFetches + 1
    /\ pc' = [pc EXCEPT ![c] = "token_wait"]
    /\ kind' = [kind EXCEPT ![c] = k]
    /\ ended' = NoEnd
    /\ reply' = NoReply
    /\ UNCHANGED <<bearer, posts, refetches, dataResps>>

\* get_token called on its own, up to its return or to the await of line 94
GetToken(c) ==
    /\ pc[c] = "idle"
    /\ IF _token_is_valid
       THEN /\ End(c, "getToken", TRUE, access_token, "", NoError, <<>>, FALSE)
            /\ emitted' = {}
            /\ UNCHANGED <<access_token, token_lock, raceFetches>>
       ELSE SlowPath(c, "getToken") /\ UNCHANGED idAlumno
    /\ lastFetch' = NoFetch
    /\ UNCHANGED <<token_expiry_epoch, now, expirySrc>>
    /\ TOKENS' = Forget(TOKENS)

\* erp_post_json lines 147-159, up to its first await: get_token returns the cached
\* token and the POST is sent, or get_token sends the token request.
erp_post_json(c) ==
    /\ pc[c] = "idle"
    /\ IF _token_is_valid
       THEN /\ pc' = [pc EXCEPT ![c] = "post1_wait"]
            /\ kind' = [kind EXCEPT ![c] = "callUpstream"]
            /\ bearer' = [bearer EXCEPT ![c] = access_token]
            /\ posts' = [posts EXCEPT ![c] = 1]
            /\ sentAt' = [sentAt EXCEPT ![c] = now]
            /\ emitted' = {Rec("POST %s", <<Url>>)}
            /\ ended' = NoEnd
            /\ reply' = NoReply
            /\ UNCHANGED <<access_token, token_lock, wrote, raceFetches, refetches,
                           dataResps>>
       ELSE SlowPath(c, "callUpstream")
    /\ lastFetch' = NoFetch
    /\ UNCHANGED <<token_expiry_epoch, now, expirySrc>>
    /\ TOKENS' = Forget(TOKENS)

\* erp_post_json called on its own
CallUpstream(c) ==
    /\ erp_post_json(c)
    /\ UNCHANGED idAlumno

\* GET /aic/alumnos?idAlumno=id, lines 263-276, up to its reply or to the first await
\* of erp_post_json: a value that is not all digits is answered 400 (line 265), int()
\* of line 270 raises ValueError on a digit that is no decimal and the framework
\* answers 500; neither reaches erp_post_json.
AicAlumnos(c, id) ==
    LET id_str == Strip(id) IN
    IF ~IsDigit(id_str) \/ IntOfIdRaises(id_str)
    THEN /\ pc[c] = "idle"
         /\ pc' = [pc EXCEPT ![c] = "end"]
         /\ reply' = [caller |-> c, idAlumno |-> id, called |-> FALSE, data |-> "",
                      status |-> IF ~IsDigit(id_str) THEN 400 ELSE 500,
                      detail |-> IF ~IsDigit(id_str)
                                 THEN "idAlumno must be a numeric string"
                                 ELSE "Internal Server Error"]
         /\ emitted' = {}
         /\ lastFetch' = NoFetch
         /\ ended' = NoEnd
         /\ UNCHANGED <<access_token, token_expiry_epoch, token_lock, now, TOKENS, kind,
                        sentAt, bearer, posts, refetches, dataResps, wrote,
                        raceFetches, expirySrc, idAlumno>>
    ELSE /\ erp_post_json(c)
         /\ idAlumno' = [idAlumno EXCEPT ![c] = id]

\* _fetch_token resumes at line 95 with the answer of the token endpoint; the
\* upstream issued the token (mock _issue_token) when the request reached it, at
\* sentAt, or just before the answer arrived.  On success the caller goes on without
\* suspending: get_token returns (line 136), erp_post_json sends the POST (line 159)
\* or, after a 401, reads _access_token and sends the POST again (lines 164-166).
TokenResponse(c) ==
    /\ pc[c] \in TokenWaiting
    /\ now - sentAt[c] <= HTTP_TIMEOUT_SECONDS
    /\ \E resp \in TokenResponses(FreshToken), issuedAt \in {sentAt[c], now} :
         LET o == FetchOutcome(resp)
             st == StoreToken(o)
             w == wrote[c] \/ <<st.value, st.expiry>> # cache
         IN
         /\ access_token' = st.value
         /\ token_expiry_epoch' = st.expiry
         /\ expirySrc' = st.src
         /\ raceFetches' = 0
         /\ lastFetch' = [caller |-> c, status |-> resp.status, token |-> resp.token,
                          expires_in |-> resp.expires_in, seconds |-> resp.seconds,
                          ok |-> o.ok, returned |-> o.token, error |-> o.error]
         /\ IF ~o.ok
            THEN /\ End(c, kind[c], FALSE, None, "", o.error, dataResps[c], w)
                 /\ emitted' = o.logs
            ELSE IF kind[c] = "getToken"
            THEN /\ End(c, kind[c], TRUE, o.token, "", NoError, <<>>, w)
                 /\ emitted' = o.logs
            ELSE /\ pc' = [pc EXCEPT ![c] =
                             IF pc[c] = "token_wait" THEN "post1_wait" ELSE "post2_wait"]
                 /\ bearer' = [bearer EXCEPT ![c] =
                                 IF pc[c] = "token_wait" THEN o.token ELSE st.value]
                 /\ posts' = [posts EXCEPT ![c] = @ + 1]
                 /\ sentAt' = [sentAt EXCEPT ![c] = now]
                 /\ wrote' = [wrote EXCEPT ![c] = w]
                 /\ emitted' = o.logs \cup (IF pc[c] = "token_wait"
                                           THEN {Rec("POST %s", <<Url>>)} ELSE {})
                 /\ ended' = NoEnd
                 /\ reply' = NoReply
                 /\ UNCHANGED <<kind, refetches, dataResps, idAlumno>>
         /\ TOKENS' = Forget(IF IsSuccess(resp.status) /\ resp.token > 0
                             THEN [TOKENS EXCEPT ![resp.token] = issuedAt + IntOf(resp)]
                             ELSE TOKENS)
    /\ UNCHANGED <<token_lock, now>>

\* erp_post_json resumes at line 161 (first POST) or line 168 (retried POST) with
\* the answer of the data endpoint.
PostResponse(c) ==
    /\ pc[c] \in PostWaiting
    /\ now - sentAt[c] <= HTTP_TIMEOUT_SECONDS
    /\ \E resp \in DataResponses(bearer[c]) :
         IF RetryOn401(resp.status, pc[c])
         THEN /\ pc' = [pc EXCEPT ![c] = "refetch_wait"]
              /\ dataResps' = [dataResps EXCEPT ![c] = Append(@, resp)]
              /\ refetches' = [refetches EXCEPT ![c] = @ + 1]
              /\ sentAt' = [sentAt EXCEPT ![c] = now]
              /\ emitted' = {Rec("ERP returned 401. Refreshing token and retrying once.",
                                 <<>>),
                             LogFetching}
              /\ ended' = NoEnd
              /\ reply' = NoReply
              /\ UNCHANGED <<kind, bearer, posts, wrote, idAlumno>>
         ELSE IF ~IsSuccess(resp.status)
         THEN /\ End(c, kind[c], FALSE, None, "",
                     HTTPException("ERP call failed", resp.status),
                     Append(dataResps[c], resp), wrote[c])
              /\ emitted' = {Rec("ERP call failed: status=%s url=%s body=%s",
                                 <<Str(resp.status), Url, ErrText>>)}
         ELSE /\ End(c, kind[c], TRUE, None, ReturnedBody(Append(dataResps[c], resp)),
                     NoError, Append(dataResps[c], resp), wrote[c])
              /\ emitted' = {}
    /\ lastFetch' = NoFetch
    /\ UNCHANGED <<access_token, token_expiry_epoch, token_lock, now, raceFetches, expirySrc>>
    /\ TOKENS' = Forget(TOKENS)

\* client.post raises instead of answering: the timeout of line 149 or a network
\* error.  The exception leaves _fetch_token or erp_post_json at the await.
Timeout(c) ==
    /\ pc[c] \in Waiting
    /\ End(c, kind[c], FALSE, None, "",
           [exc |-> "TimeoutException", status_code |-> 0, detail |-> "",
            upstream |-> 0],
           dataResps[c], wrote[c])
    /\ raceFetches' = IF pc[c] \in TokenWaiting THEN 0 ELSE raceFetches
    /\ emitted' = {}
    /\ lastFetch' = NoFetch
    /\ UNCHANGED <<access_token, token_expiry_epoch, token_lock, now, expirySrc>>
    /\ TOKENS' = Forget(TOKENS)

Next ==
    \/ Tick
    \/ \E c \in Callers : GetToken(c)
    \/ \E c \in Callers : CallUpstream(c)
    \/ \E c \in Callers : TokenResponse(c)
    \/ \E c \in Callers : PostResponse(c)
    \/ \E c \in Callers : Timeout(c)

Spec == Init /\ [][Next]_vars

\* The stampede test: every caller calls get_token, nothing else runs.
NextRace ==
    \/ Tick
    \/ \E c \in Racers : GetToken(c)
    \/ \E c \in Racers : TokenResponse(c)
    \/ \E c \in Racers : Timeout(c)

SpecRace == Init /\ [][NextRace]_vars

\* The /aic/alumnos endpoint: one request for one student, on a cold cache.
Handlers == {1}

NextAlumnos ==
    \/ Tick
    \/ \E c \in Handlers, id \in IdAlumnos : AicAlumnos(c, id)
    \/ \E c \in Handlers : TokenResponse(c)
    \/ \E c \in Handlers : PostResponse(c)
    \/ \E c \in Handlers : Timeout(c)

SpecAlumnos == Init /\ [][NextAlumnos]_vars

\* ---------------------------------------------------------------- claims

\* C1: callers racing one expiry issue no more than 2 token fetches: the number of
\* token requests get_token has sent since a token fetch last completed never
\* exceeds 2.
C1_AtMostTwoFetches == raceFetches <= 2

\* C2: while the cached token is VALID, a call of get_token (on its own or from
\* erp_post_json) sends nothing to the token endpoint, leaves the cache alone and
\* hands out exactly the cached value.
C2_ValidTokenServedFromCache ==
    [][\A c \in Callers :
         (pc[c] = "idle" /\ pc'[c] # "idle"
            /\ access_token # None /\ now < token_expiry_epoch)
         => /\ pc'[c] \notin TokenWaiting
            /\ LogFetching \notin emitted'
            /\ lastFetch'.caller = 0
            /\ cache' = cache
            /\ IF pc'[c] = "end"
               THEN ended'.caller = c /\ ended'.ok /\ ended'.token = access_token
               ELSE pc'[c] = "post1_wait" /\ bearer'[c] = access_token]_vars

\* a get_token call was answered from the cache while another request is in flight
C2_Witness ==
    /\ ended.kind = "getToken" /\ ended.ok /\ lastFetch.caller = 0
    /\ ended.token = access_token /\ access_token # None /\ now < token_expiry_epoch
    /\ \E c \in Callers : pc[c] = "post1_wait" /\ bearer[c] = access_token

\* C3: erp_post_json whose first POST is answered 401 and whose retried POST is
\* answered 2xx has sent exactly 2 POSTs and returns the body of the second answer.
C3_RetryReturnsSecondBody ==
    (/\ ended.kind = "callUpstream"
     /\ Len(ended.responses) = 2
     /\ ended.responses[1].status = 401
     /\ ended.responses[2].status \in 200..299)
    => /\ ended.ok
       /\ ended.error = NoError
       /\ ended.posts = 2
       /\ ended.json = ended.responses[2].body

C3_Witness ==
    /\ ended.kind = "callUpstream" /\ ended.ok
    /\ Len(ended.responses) = 2
    /\ ended.responses[1].status = 401
    /\ ended.responses[2].status = 200
    /\ ended.json = "b1"

\* C4: erp_post_json whose first and retried POST are both answered 401 raises the
\* call error carrying status 401 after exactly 2 POSTs and exactly 1 refetch; no
\* call ever sends a third POST or refetches twice.
C4_Second401Fails ==
    /\ \A c \in Callers : posts[c] <= 2 /\ refetches[c] <= 1
    /\ (/\ ended.kind = "callUpstream"
        /\ Len(ended.responses) = 2
        /\ ended.responses[1].status = 401
        /\ ended.responses[2].status = 401)
       => /\ ~ended.ok
          /\ ended.error = [exc |-> "HTTPException", status_code |-> 502,
                            detail |-> "ERP call failed", upstream |-> 401]
          /\ ended.posts = 2
          /\ ended.refetches = 1

C4_Witness ==
    /\ ended.kind = "callUpstream" /\ ~ended.ok
    /\ Len(ended.responses) = 2
    /\ ended.responses[1].status = 401
    /\ ended.responses[2].status = 401
    /\ ended.error.upstream = 401

\* C5 as stated: an operation that ends in failure has not changed the cached value
\* or expiry since it started.
C5_FailedOperationWroteNothing ==
    ~(ended.caller # 0 /\ ~ended.ok /\ ended.wrote)

\* C5 amended: the step in which an operation raises (token answer non-2xx or
\* invalid, timeout, data answer non-2xx) leaves the cached value and expiry as they
\* are.
C5_FailingStepWritesNothing ==
    [][(ended'.caller # 0 /\ ~ended'.ok) => cache' = cache]_vars

\* a token fetch was refused while the cache holds a token
C5_Witness ==
    /\ ended.caller # 0 /\ ~ended.ok
    /\ lastFetch.caller = ended.caller /\ ~lastFetch.ok
    /\ access_token # None

\* C6: a caller with a token request or a data POST in flight does not hold
\* _token_lock.
C6_NoLockAcrossNetworkCall ==
    \A c \in Callers : pc[c] \in Waiting => token_lock # c

\* two callers passed the lock and both have their token request in flight
C6_Witness ==
    pc[1] = "token_wait" /\ pc[2] = "token_wait"

\* C7 as stated: the cached value and the cached expiry always come from the same
\* fetch (both still unset counts as the same).
C7_ValueAndExpiryFromSameFetch == expirySrc = access_token

\* C7 amended: whenever a token value is present, the expiry was written by the
\* fetch that wrote this value.
C7_PresentValueHasItsExpiry ==
    access_token # None => expirySrc = access_token

\* a refresh replaced an earlier token, value and expiry
C7_Witness ==
    access_token = 2 /\ expirySrc = 2 /\ now < token_expiry_epoch

C9_FetchTokenErrors ==
    lastFetch.caller # 0 =>
      LET ok2xx == lastFetch.status \in 200..299
          noToken == lastFetch.token \in {None, EmptyStr}
          noDuration == lastFetch.expires_in # "int" \/ lastFetch.seconds <= 0
      IN
      /\ ~ok2xx => /\ ~lastFetch.ok
                   /\ lastFetch.error = [exc |-> "HTTPException", status_code |-> 502,
                                         detail |-> "Token request failed",
                                         upstream |-> lastFetch.status]
      /\ (ok2xx /\ (noToken \/ noDuration))
           => /\ ~lastFetch.ok
              /\ lastFetch.error = [exc |-> "HTTPException", status_code |-> 502,
                                    detail |-> "Token response invalid", upstream |-> 0]
      /\ lastFetch.ok => /\ ok2xx /\ ~noToken /\ ~noDuration
                         /\ lastFetch.returned = lastFetch.token

\* C10: no log record carries a credential (username, password, client id, client
\* secret) in cleartext.
C10_NoCleartextCredential ==
    \A rec \in emitted : \A i \in 1..Len(rec.args) : rec.args[i] \notin Credentials


\* C11: GET /aic/alumnos with an idAlumno that is not a number is answered 400 and
\* neither a token request nor an upstream POST is made for it; with a number for
\* which the upstream answers an empty list it is answered 404 "Alumno not found";
\* a 200 with a normalized record is given only when the upstream answered a list
\* with at least one record.
C11_AlumnosErrors ==
    reply.caller # 0 =>
        /\ IntOfIdRaises(Strip(reply.idAlumno))
              => reply.status = 400 /\ ~reply.called
        /\ (~IntOfIdRaises(Strip(reply.idAlumno)) /\ reply.data = "[]")
              => reply.status = 404 /\ reply.detail = "Alumno not found"
        /\ reply.status = 200 => reply.data = "[alumno]"


\* C12 as stated: whatever the upstream answers, one erp_post_json sends at most 2
\* POSTs and starts at most 1 token refetch, and it has refetched, and has sent the
\* second POST, exactly when its first POST was answered 401.
C12_RefetchAndRetryIff401 ==
    ended.kind = "callUpstream" =>
        LET first401 == Len(ended.responses) >= 1 /\ ended.responses[1].status = 401
        IN /\ ended.posts <= 2
           /\ ended.refetches <= 1
           /\ ended.refetches = 1 <=> first401
           /\ ended.posts = 2 <=> first401

\* C12, amended: one erp_post_json sends at most 2 POSTs and starts at most 1 token
\* refetch; it starts the refetch exactly when its first POST is answered 401,
\* whether or not the cached token is VALID at that moment; it sends the second POST
\* exactly when that refetch succeeds, and a refetch that fails or times out ends
\* the operation after one POST.
C12_RefetchIff401RetryIffRefetched ==
    /\ [](\A c \in Callers :
            /\ posts[c] <= 2 /\ refetches[c] <= 1
            /\ posts[c] = 2 <=> pc[c] = "post2_wait"
            /\ refetches[c] = 1 <=> pc[c] \in {"refetch_wait", "post2_wait"})
    /\ [](ended.kind = "callUpstream" =>
            /\ ended.posts <= 2 /\ ended.refetches <= 1
            /\ ended.refetches = 1
                 <=> (Len(ended.responses) >= 1 /\ ended.responses[1].status = 401)
            /\ ended.posts = 2 => ended.refetches = 1
            /\ Len(ended.responses) = 2 => ended.posts = 2)
    /\ [][\A c \in Callers :
            /\ (pc[c] # "refetch_wait" /\ pc'[c] = "refetch_wait")
                 <=> /\ pc[c] = "post1_wait"
                     /\ Len(dataResps'[c]) = 1
                     /\ dataResps'[c][1].status = 401
            /\ (pc[c] # "refetch_wait" /\ pc'[c] = "refetch_wait")
                 => LogFetching \in emitted'
            /\ (pc[c] = "refetch_wait" /\ pc'[c] # "refetch_wait")
                 => IF lastFetch'.caller = c /\ lastFetch'.ok
                    THEN pc'[c] = "post2_wait" /\ posts'[c] = 2
                    ELSE /\ pc'[c] = "end"
                         /\ ended'.caller = c /\ ~ended'.ok /\ ended'.posts = 1
            /\ (pc[c] # "post2_wait" /\ pc'[c] = "post2_wait")
                 => pc[c] = "refetch_wait"
            /\ (pc[c] = "post2_wait" /\ pc'[c] # "post2_wait") => pc'[c] = "end"]_vars

\* a token refetch is in flight after a 401 while the cached token is VALID
C12_Witness ==
    \E c \in Callers :
        /\ pc[c] = "refetch_wait"
        /\ dataResps[c][1].status = 401
        /\ _token_is_valid


\* C13: after a 401, the POST that erp_post_json sends again carries exactly the token
\* its own refetch returned: not the token that was rejected, not an absent value,
\* not what another caller wrote to the cache in the meantime, whatever get_token and
\* erp_post_json callers run concurrently.
C13_RetryCarriesOwnRefetchedToken ==
    [][\A c \in Callers :
         (pc[c] = "refetch_wait" /\ pc'[c] = "post2_wait")
         => /\ lastFetch'.caller = c
            /\ lastFetch'.ok
            /\ bearer'[c] = lastFetch'.returned
            /\ bearer'[c] = lastFetch'.token
            /\ bearer'[c] \notin {None, EmptyStr}
            /\ bearer'[c] # bearer[c]]_vars

\* a retried POST is in flight with a token other than the rejected one while
\* another caller is using a different token or has cleared the cached value
C13_Witness ==
    \E c, d \in Callers :
        /\ c # d
        /\ pc[c] = "post2_wait"
        /\ dataResps[c][1].status = 401
        /\ bearer[c] \notin {None, EmptyStr}
        /\ \/ pc[d] \in PostWaiting /\ bearer[d] \notin {None, bearer[c]}
           \/ pc[d] = "token_wait" /\ access_token # bearer[c]


\* C14: get_token never returns an absent token: every successful return, from the
\* fast path, from the re-check under the lock or after a fetch, on its own or
\* inside erp_post_json, yields a non-empty token value, also while another caller
\* has cleared the cached value in the slow path.
C14_GetTokenNeverReturnsNone ==
    /\ (ended.kind = "getToken" /\ ended.ok) => ended.token \notin {None, EmptyStr}
    /\ \A c \in Callers : pc[c] = "post1_wait" => bearer[c] \notin {None, EmptyStr}

\* get_token has returned a token while another caller, which went through the clear
\* of line 133 in the slow path, is still waiting for its own token
C14_Witness ==
    /\ ended.kind = "getToken" /\ ended.ok
    /\ ended.token \notin {None, EmptyStr}
    /\ \E d \in Callers : d # ended.caller /\ pc[d] = "token_wait"

====
